---- MODULE Spec2Model ----
(***************************************************************************)
(* Real-time synchronisation layer of the Hermes dispatcher console:       *)
(* the WebSocketService (src/src/services/websocket.ts) and the zustand    *)
(* stores it feeds (src/unnamed/part_007).                                 *)
(*                                                                         *)
(* The service state is carried through the handlers as a record           *)
(* (operator Svc), so that a handler that calls another handler is the     *)
(* composition of the two; every action applies one whole handler.         *)
(***************************************************************************)
EXTENDS Integers, Sequences, FiniteSets, TLC

(* ---------------------------------------------------------------------- *)
(* Program constants (websocket.ts:12-14)                                  *)
(* ---------------------------------------------------------------------- *)
RECONNECT_ATTEMPTS == 5
RECONNECT_DELAY == 3000

(* ---------------------------------------------------------------------- *)
(* Bounds of the model                                                     *)
(* ---------------------------------------------------------------------- *)
\* transports the service may create in one run (each io() call makes one)
MaxSockets == 7
\* send() calls in one run
MaxSends == 1

\* registrations the subscribers make in one run
MaxSubs == 2
\* events the transport delivers in one run
MaxMessages == 2

\* records a collection holds at most when a caller adds one
MaxRecords == 2
\* readings the clock advances through in one run
MaxClock == 2
\* the unread counter up to which addAlert and updateAlert are called
MaxUnread == 3

SocketIds == 1..MaxSockets
\* the session config a caller passes to connect(); the service only stores it
\* and hands it to io()
Configs == {"session"}
NoSocket == 0
NoConfig == "null"
NoError == "null"

\* reasons socket.io gives a 'disconnect' that the client did not ask for
ServerReasons == {"transport close", "io server disconnect"}
ClientReason == "io client disconnect"

\* frames on the wire: the heartbeat probe, and the frame of the n-th send() call
PingFrame == [type |-> "ping", seq |-> 0]
SendFrame(n) == [type |-> "message", seq |-> n]

(* ---------------------------------------------------------------------- *)
(* Values of the message router and the domain stores                      *)
(* ---------------------------------------------------------------------- *)
\* JavaScript null
Null == [null |-> TRUE]
\* a Date field that is null
NoDate == -1

\* enum MessageType (part_008:496-505)
MessageTypes == {"trip_update", "driver_location_update", "driver_status_update",
                 "new_trip_request", "alert_created", "metrics_update",
                 "user_joined", "user_left"}
\* the types useWebSocketStore.handleMessage has a case for
BuiltinTypes == {"trip_update", "driver_location_update", "driver_status_update",
                 "new_trip_request", "alert_created", "metrics_update"}
Tags == MessageTypes \cup {"all"}
\* the tags the subscribers register for: one message type and the wildcard
SubscribedTags == {"trip_update", "all"}

\* subscriber callbacks: a component that reads the stores when notified, and
\* one whose callback throws
Handlers == {"reader", "thrower"}
\* a callback that calls the unsubscribe function it got from subscribe()
Quitters == {"quitter"}
Kind(h) == h

TripIds == {"t1", "t2"}
DriverIds == {"d1"}
AlertIds == {"a1"}
Trips == [id : TripIds, status : {"pending"}, rider : {"ann"}]
DriverRecords == [id : DriverIds, status : {"available"}, availability : {"online"},
                  currentLocation : {"depot"}, lastActive : {0}]
AlertRecords == [id : AlertIds, severity : {"critical", "low"}, isRead : {FALSE},
                 title : {"late"}]
MetricsSnapshots == {[activeTrips |-> 1]}

\* the events the backend pushes: per type, the payloads of the backend
\* contract, and for trip_update also a null payload; user_joined is a
\* MessageType without a built-in action, shift_changed a tag outside the enum
Inbound ==
  [type : {"trip_update"},
   payload : [id : TripIds, status : {"assigned"}] \cup {Null}]
  \cup [type : {"driver_location_update"},
        payload : [driverId : DriverIds, location : {"airport"}]]
  \cup [type : {"driver_status_update"},
        payload : [driverId : DriverIds, status : {"busy"}, availability : {"busy"}]]
  \cup [type : {"new_trip_request"}, payload : Trips]
  \cup [type : {"alert_created"}, payload : AlertRecords]
  \cup [type : {"metrics_update"}, payload : MetricsSnapshots]
  \cup [type : {"user_joined", "shift_changed"}, payload : {[userId |-> "u1"]}]

\* what a wholesale load replaces a collection with: nothing or one record
\* (longer collections are built by adding)
Loads(S) == {<<>>} \cup {<<r>> : r \in S}

\* what callers put into the stores directly (REST loads, user actions): whole
\* records, partial updates, and the ids they look up, one of them absent
StoredTrips == [id : TripIds, status : {"pending", "assigned"}, rider : {"ann"}]
TripUpdates == {[status |-> "assigned"], [status |-> "pending"], [id |-> "t2"]}
LookupTripIds == TripIds \cup {"t9"}
RosterIds == {"d1", "d2"}
Roster == [id : RosterIds, status : {"available", "busy"}, availability : {"online"},
           currentLocation : {"depot"}, lastActive : {0}]
DriverUpdates == {[status |-> "busy"], [status |-> "available"], [id |-> "d2"]}
LookupDriverIds == RosterIds \cup {"d9"}
InboxIds == {"a1", "a2"}
StoredAlerts == [id : InboxIds, severity : {"critical"}, isRead : BOOLEAN, title : {"late"}]
AlertUpdates == {[isRead |-> TRUE], [isRead |-> FALSE], [severity |-> "low"]}
LookupAlertIds == InboxIds \cup {"a9"}

\* the events of the trip and alert flows: a status change of a trip (also with
\* a null payload), and an alert that arrives unread or already read
ArrivingAlerts == [id : AlertIds, severity : {"critical", "low"}, isRead : BOOLEAN,
                   title : {"late"}]
FlowEvents ==
  [type : {"trip_update"}, payload : [id : TripIds, status : {"assigned"}] \cup {Null}]
  \cup [type : {"alert_created"}, payload : ArrivingAlerts]

\* what callers pass to addNotification: with a duration, with duration 0,
\* with none
Toasts ==
  { [type |-> "info", title |-> "timed", duration |-> 5000],
    [type |-> "info", title |-> "zero", duration |-> 0],
    [type |-> "info", title |-> "sticky"] }

\* filters: {} is the function with no criterion set
NoFilters == [name \in {} |-> Null]

\* trips and drivers with the fields the filtered views read; text is a
\* sequence of characters, dates are instants
ListedTrips ==
  { [id |-> <<"t", "1">>, status |-> "pending", serviceType |-> "standard",
     driver |-> Null,
     rider |-> [id |-> "r1", firstName |-> <<"A", "n", "n">>, lastName |-> <<"L", "e", "e">>],
     requestedAt |-> 1,
     pickup |-> [address |-> <<"F", "o", "o">>],
     destination |-> [address |-> <<"B", "a", "r">>]],
    [id |-> <<"t", "2">>, status |-> "assigned", serviceType |-> "premium",
     driver |-> [id |-> "d1"],
     rider |-> [id |-> "r2", firstName |-> <<"B", "o", "b">>, lastName |-> <<"F", "o", "x">>],
     requestedAt |-> 2,
     pickup |-> [address |-> <<"Z", "o", "o">>],
     destination |-> [address |-> <<"G", "y", "m">>]],
    [id |-> <<"t", "3">>, status |-> "completed", serviceType |-> "standard",
     driver |-> [id |-> "d2"],
     rider |-> [id |-> "r1", firstName |-> <<"A", "n", "n">>, lastName |-> <<"L", "e", "e">>],
     requestedAt |-> 3,
     pickup |-> [address |-> <<"G", "y", "m">>],
     destination |-> [address |-> <<"f", "o", "o", "d">>]] }

ListedDrivers ==
  { [id |-> "d1", status |-> "available", availability |-> "online",
     vehicle |-> [type |-> "sedan"], isOnline |-> TRUE,
     firstName |-> <<"Z", "o", "e">>, lastName |-> <<"L", "e", "e">>,
     email |-> <<"z", "o", "e">>, phone |-> <<"5", "5", "1">>,
     employeeId |-> <<"E", "7">>],
    [id |-> "d2", status |-> "busy", availability |-> "offline",
     vehicle |-> [type |-> "van"], isOnline |-> FALSE,
     firstName |-> <<"A", "l">>, lastName |-> <<"F", "o", "x">>,
     email |-> <<"a", "l">>, phone |-> <<"5", "5", "2">>] }

\* Partial<TripFilters>, Partial<DriverFilters> as the filter panel sets them
TripFilterUpdates ==
  { [status |-> <<"pending", "assigned">>], [status |-> <<>>],
    [serviceType |-> <<"standard">>],
    [driverId |-> "d1"],
    [riderId |-> "r1"], [riderId |-> ""],
    [dateRange |-> [start |-> 2, end |-> 3]],
    [search |-> <<"F", "O">>], [search |-> <<>>] }

DriverFilterUpdates ==
  { [status |-> <<"available">>], [status |-> <<>>],
    [availability |-> <<"online", "offline">>],
    [vehicleType |-> <<"van">>],
    [onlineOnly |-> TRUE], [onlineOnly |-> FALSE],
    [search |-> <<"E", "7">>], [search |-> <<"5", "5">>], [search |-> <<>>] }

\* immer's autoFreeze setting: on unless the build switches it off
AutoFreeze == BOOLEAN

EmptyPass == [calls |-> <<>>, views |-> {}, changed |-> FALSE, storeThrew |-> FALSE]

VARIABLES
  \* WebSocketService fields (websocket.ts:27-35)
  socket,             \* this.socket: NoSocket or the id of the held transport
  config,             \* this.config: NoConfig or the session config
  reconnectAttempts,  \* this.reconnectAttempts
  heartbeatInterval,  \* this.heartbeatInterval is non-null
  isConnecting,       \* this.isConnecting
  isInitialized,      \* this.isInitialized
  \* runtime objects the service creates
  sockets,            \* every transport io() made: "none", "connecting", "connected", "closed"
  sendBuffer,         \* per transport, frames emitted before its handshake (socket.io buffers them)
  intervals,          \* running setInterval timers
  timers,             \* pending setTimeout callbacks of scheduleReconnect, in scheduling order: their delays
  \* useWebSocketStore (part_007:575-578)
  isConnected,
  connectionError,
  lastMessage,
  \* the subscription registry (websocket.ts:29): per tag, the handlers in
  \* registration order
  messageHandlers,
  \* useTripStore, useDriverStore, useAlertStore, useMetricsStore, useUIStore
  trips, selectedTrip, tripsLastUpdated,
  drivers, selectedDriver, driversLastUpdated,
  alerts, unreadCount, selectedAlert,
  metrics, metricsLastUpdated, metricsError,
  notifications,
  notifTimers,        \* pending auto-dismiss setTimeout callbacks: [id, delay]
  now,                \* the clock read by Date.now() and new Date(), in ms
  \* observation only
  out,                \* frames put on the wire by the last step
  lastOp,             \* the handler the last step ran
  failures,           \* failure events since the last handshake or disconnect()
  failuresSinceHandshake, \* failure events since the last handshake
  exhausted,          \* scheduleReconnect hit the cap and the caller has not called connect() since
  authFailed,         \* an auth_error was handled and the caller has not called connect() since
  stopped,            \* the caller's last call was disconnect() (no connect() since)
  autoSocket,         \* the held transport was created by the reconnect timer
  autoFailed,         \* reconnect-timer attempts that failed since the last handshake or caller connect()
  sendSeq,            \* send() calls so far; each call's frame is tagged with its number
  dropped,            \* tags of the frames send() dropped
  received,           \* events delivered so far
  tripFilters,        \* useTripStore filters: the criteria that are set, by name
  driverFilters,      \* useDriverStore filters
  lastView,           \* what the last getFiltered* call gave: threw, or the records returned
  subscriptions,      \* every subscribe() call so far, in call order: its tag, its handler,
                      \* and whether its registration is still due (live): it is until
                      \* the unsubscribe function that call returned is invoked
  pass                \* the last handleMessage pass: the handlers it called, in order
                      \* (calls), what each reader saw in the stores (views), whether the
                      \* stores changed (changed), whether the store update threw (storeThrew)

connVars == <<socket, config, reconnectAttempts, heartbeatInterval, isConnecting,
              isInitialized, sockets, sendBuffer, intervals, timers, isConnected,
              connectionError, out, lastOp, failures, failuresSinceHandshake,
              exhausted, authFailed, stopped, autoSocket, autoFailed, sendSeq, dropped, received>>

routerVars == <<lastMessage, messageHandlers, trips, selectedTrip, tripsLastUpdated,
                drivers, selectedDriver, driversLastUpdated, alerts, unreadCount,
                selectedAlert, metrics, metricsLastUpdated, metricsError,
                notifications, notifTimers, now, received, tripFilters, driverFilters,
                lastView, subscriptions, pass>>

vars == <<connVars, routerVars>>

(* ---------------------------------------------------------------------- *)
(* The service and store state as one record                               *)
(* ---------------------------------------------------------------------- *)
Svc ==
  [socket |-> socket, config |-> config, reconnectAttempts |-> reconnectAttempts,
   heartbeatInterval |-> heartbeatInterval, isConnecting |-> isConnecting,
   isInitialized |-> isInitialized, sockets |-> sockets, sendBuffer |-> sendBuffer,
   intervals |-> intervals, timers |-> timers, isConnected |-> isConnected,
   connectionError |-> connectionError, out |-> {}, failures |-> failures,
   failuresSinceHandshake |-> failuresSinceHandshake, exhausted |-> exhausted,
   lastMessage |-> lastMessage, messageHandlers |-> messageHandlers,
   trips |-> trips, selectedTrip |-> selectedTrip, tripsLastUpdated |-> tripsLastUpdated,
   drivers |-> drivers, selectedDriver |-> selectedDriver,
   driversLastUpdated |-> driversLastUpdated,
   alerts |-> alerts, unreadCount |-> unreadCount, selectedAlert |-> selectedAlert,
   metrics |-> metrics, metricsLastUpdated |-> metricsLastUpdated,
   metricsError |-> metricsError, notifications |-> notifications,
   notifTimers |-> notifTimers, now |-> now, pass |-> pass,
   subscriptions |-> subscriptions,
   tripFilters |-> tripFilters, driverFilters |-> driverFilters, lastView |-> lastView,
   threw |-> FALSE]    \* threw: an exception is propagating

Commit(s) ==
  /\ socket' = s.socket
  /\ config' = s.config
  /\ reconnectAttempts' = s.reconnectAttempts
  /\ heartbeatInterval' = s.heartbeatInterval
  /\ isConnecting' = s.isConnecting
  /\ isInitialized' = s.isInitialized
  /\ sockets' = s.sockets
  /\ sendBuffer' = s.sendBuffer
  /\ intervals' = s.intervals
  /\ timers' = s.timers
  /\ isConnected' = s.isConnected
  /\ connectionError' = s.connectionError
  /\ out' = s.out
  /\ failures' = s.failures
  /\ failuresSinceHandshake' = s.failuresSinceHandshake
  /\ exhausted' = s.exhausted
  /\ lastMessage' = s.lastMessage
  /\ messageHandlers' = s.messageHandlers
  /\ trips' = s.trips
  /\ selectedTrip' = s.selectedTrip
  /\ tripsLastUpdated' = s.tripsLastUpdated
  /\ drivers' = s.drivers
  /\ selectedDriver' = s.selectedDriver
  /\ driversLastUpdated' = s.driversLastUpdated
  /\ alerts' = s.alerts
  /\ unreadCount' = s.unreadCount
  /\ selectedAlert' = s.selectedAlert
  /\ metrics' = s.metrics
  /\ metricsLastUpdated' = s.metricsLastUpdated
  /\ metricsError' = s.metricsError
  /\ notifications' = s.notifications
  /\ notifTimers' = s.notifTimers
  /\ now' = s.now
  /\ pass' = s.pass
  /\ subscriptions' = s.subscriptions
  /\ tripFilters' = s.tripFilters
  /\ driverFilters' = s.driverFilters
  /\ lastView' = s.lastView

\* this.socket && this.socket.connected
SocketConnected(s) == s.socket # NoSocket /\ s.sockets[s.socket] = "connected"

Live(st) == st \in {"connecting", "connected"}

Pow2(n) == 2 ^ n

(* ---------------------------------------------------------------------- *)
(* useWebSocketStore setters                                               *)
(* ---------------------------------------------------------------------- *)
setConnected(s, connected) ==
  [s EXCEPT !.isConnected = connected,
            !.connectionError = IF connected THEN NoError ELSE @]

setConnectionError(s, error) ==
  [s EXCEPT !.connectionError = error, !.isConnected = FALSE]

\* handleError: the store records the message (the registered error handlers
\* are UI callbacks and do not touch the service)
handleError(s, message) == setConnectionError(s, message)

(* ---------------------------------------------------------------------- *)
(* Heartbeat                                                               *)
(* ---------------------------------------------------------------------- *)
stopHeartbeat(s) ==
  IF s.heartbeatInterval
    THEN [s EXCEPT !.intervals = @ - 1, !.heartbeatInterval = FALSE]
    ELSE s

startHeartbeat(s) ==
  LET c == IF s.heartbeatInterval THEN [s EXCEPT !.intervals = @ - 1] ELSE s
  IN [c EXCEPT !.intervals = @ + 1, !.heartbeatInterval = TRUE]

(* ---------------------------------------------------------------------- *)
(* Reconnection                                                            *)
(* ---------------------------------------------------------------------- *)
ReconnectDelayLinear(attempts) == RECONNECT_DELAY * (attempts + 1)

ReconnectDelay(attempts) == RECONNECT_DELAY * Pow2(attempts)

scheduleReconnect(s) ==
  LET f == [s EXCEPT !.failures = IF @ <= RECONNECT_ATTEMPTS THEN @ + 1 ELSE @,
                     !.failuresSinceHandshake = IF @ <= RECONNECT_ATTEMPTS THEN @ + 1 ELSE @]
  IN IF f.reconnectAttempts >= RECONNECT_ATTEMPTS
       THEN [handleError(f, "Max reconnection attempts reached") EXCEPT !.exhausted = TRUE]
       ELSE [f EXCEPT !.timers = Append(@, ReconnectDelay(f.reconnectAttempts)),
                      !.reconnectAttempts = @ + 1]

(* ---------------------------------------------------------------------- *)
(* The transport (socket.io client), as the service uses it                *)
(* ---------------------------------------------------------------------- *)
\* the 'disconnect' listener (websocket.ts:132-142)
onDisconnect(s, reason) ==
  LET a == setConnected(stopHeartbeat(s), FALSE)
  IN IF reason # ClientReason /\ a.config # NoConfig THEN scheduleReconnect(a) ELSE a

\* socket.disconnect(): a connected transport closes and fires 'disconnect'
\* with reason "io client disconnect" before the call returns; a connecting
\* one is destroyed silently; a closed one is left alone
socketDisconnect(s, id) ==
  CASE s.sockets[id] = "connected" ->
         onDisconnect([s EXCEPT !.sockets[id] = "closed"], ClientReason)
    [] s.sockets[id] = "connecting" -> [s EXCEPT !.sockets[id] = "closed"]
    [] OTHER -> s

\* socket.emit(): on the wire when connected, else kept in the transport's
\* send buffer until its handshake
socketEmit(s, id, frame) ==
  IF s.sockets[id] = "connected"
    THEN [s EXCEPT !.out = @ \cup {frame}]
    ELSE [s EXCEPT !.sendBuffer[id] = Append(@, frame)]

FreshSocket(s) == CHOOSE id \in SocketIds :
                    /\ s.sockets[id] = "none"
                    /\ \A j \in SocketIds : j < id => s.sockets[j] # "none"

CanCreate(s) == \E id \in SocketIds : s.sockets[id] = "none"

\* io(WS_URL, {...}): a new transport, handshake pending
io(s) ==
  LET id == FreshSocket(s)
  IN [s EXCEPT !.socket = id, !.sockets[id] = "connecting"]

(* ---------------------------------------------------------------------- *)
(* connect / disconnect                                                    *)
(* ---------------------------------------------------------------------- *)
closeExistingSkipped(s) == s

\* "Disconnect existing connection if any" (websocket.ts:64-66)
closeExisting(s) ==
  IF s.socket # NoSocket THEN socketDisconnect(s, s.socket) ELSE s

\* the guard of connect() (websocket.ts:55)
connectIsNoop(s) == s.isConnecting \/ SocketConnected(s)

connect(s, c) ==
  IF connectIsNoop(s)
    THEN s
    ELSE LET a == [s EXCEPT !.isConnecting = TRUE, !.config = c]
             b == io(closeExisting(a))
             d == setConnected([b EXCEPT !.isInitialized = TRUE], TRUE)
         IN [d EXCEPT !.isConnecting = FALSE]

\* whether connect(s, c) calls io()
connectCreates(s) == ~connectIsNoop(s)

disconnectReportsMissing(s) ==
  LET a == IF s.socket # NoSocket
             THEN [socketDisconnect(s, s.socket) EXCEPT !.socket = NoSocket]
             ELSE handleError(s, "Not connected")
      b == stopHeartbeat(a)
      d == [b EXCEPT !.reconnectAttempts = 0, !.isConnecting = FALSE,
                     !.isInitialized = FALSE, !.failures = 0]
  IN [d EXCEPT !.isConnected = FALSE]

disconnect(s) ==
  LET a == IF s.socket # NoSocket
             THEN [socketDisconnect(s, s.socket) EXCEPT !.socket = NoSocket]
             ELSE s
      b == stopHeartbeat(a)
      d == [b EXCEPT !.reconnectAttempts = 0, !.isConnecting = FALSE,
                     !.isInitialized = FALSE, !.failures = 0]
  IN setConnected(d, FALSE)

(* ---------------------------------------------------------------------- *)
(* Listeners of setupEventListeners                                        *)
(* ---------------------------------------------------------------------- *)
\* 'connect' (websocket.ts:123-130); the transport first flushes its buffer
onConnect(s, id) ==
  LET a == [s EXCEPT !.sockets[id] = "connected",
                     !.out = @ \cup {s.sendBuffer[id][i] : i \in 1..Len(s.sendBuffer[id])},
                     !.sendBuffer[id] = <<>>]
      b == startHeartbeat([a EXCEPT !.reconnectAttempts = 0, !.failures = 0,
                                    !.failuresSinceHandshake = 0])
  IN setConnectionError(setConnected(b, TRUE), NoError)

\* 'connect_error' (websocket.ts:144-151)
onConnectError(s, id) ==
  LET a == handleError([s EXCEPT !.sockets[id] = "closed"], "Connection error")
  IN IF a.config # NoConfig THEN scheduleReconnect(a) ELSE a

\* 'error' (websocket.ts:178-181)
onError(s) == handleError(s, "Socket error")

\* 'auth_error' (websocket.ts:184-189)
onAuthError(s) == disconnect(handleError(s, "Authentication failed"))

\* the setTimeout callback of scheduleReconnect (websocket.ts:244-248)
reconnectCallback(s) ==
  IF s.config # NoConfig /\ ~SocketConnected(s) THEN connect(s, s.config) ELSE s

reconnectCallbackCreates(s) ==
  s.config # NoConfig /\ ~SocketConnected(s) /\ connectCreates(s)

\* the setInterval callback of startHeartbeat (websocket.ts:259-263)
heartbeatCallback(s) ==
  IF SocketConnected(s) THEN socketEmit(s, s.socket, PingFrame) ELSE s

sendUnguarded(s, frame) ==
  IF s.socket = NoSocket THEN s ELSE socketEmit(s, s.socket, frame)

\* send(type, payload) (websocket.ts:279-291)
send(s, frame) ==
  IF ~SocketConnected(s) THEN s ELSE socketEmit(s, s.socket, frame)

(* ---------------------------------------------------------------------- *)
(* Domain stores (part_007)                                                *)
(* ---------------------------------------------------------------------- *)
MergeKeepsOld(old, updates) ==
  [f \in DOMAIN old \cup DOMAIN updates |->
     IF f \in DOMAIN old THEN old[f] ELSE updates[f]]

\* { ...old, ...updates }
Merge(old, updates) ==
  [f \in DOMAIN old \cup DOMAIN updates |->
     IF f \in DOMAIN updates THEN updates[f] ELSE old[f]]

\* Array.prototype.findIndex by id; 0 stands for -1
FindIndex(records, id) ==
  IF \E i \in 1..Len(records) : records[i].id = id
    THEN CHOOSE i \in 1..Len(records) :
           /\ records[i].id = id
           /\ \A j \in 1..(i - 1) : records[j].id # id
    ELSE 0

\* selected?.id === id
SelectedIs(selected, id) == selected # Null /\ selected.id = id

Throw(s) == [s EXCEPT !.threw = TRUE]

addTrip(s, trip) ==
  [s EXCEPT !.trips = <<trip>> \o @, !.tripsLastUpdated = s.now]

updateTripReplaces(s, tripId, updates) ==
  LET index == FindIndex(s.trips, tripId)
  IN IF index # 0
       THEN [s EXCEPT !.trips[index] = updates,
                      !.tripsLastUpdated = s.now,
                      !.selectedTrip = IF SelectedIs(@, tripId) THEN Merge(@, updates) ELSE @]
       ELSE s

updateTrip(s, tripId, updates) ==
  LET index == FindIndex(s.trips, tripId)
  IN IF index # 0
       THEN [s EXCEPT !.trips[index] = Merge(@, updates),
                      !.tripsLastUpdated = s.now,
                      !.selectedTrip = IF SelectedIs(@, tripId) THEN Merge(@, updates) ELSE @]
       ELSE s

setDrivers(s, list) ==
  [s EXCEPT !.drivers = list, !.driversLastUpdated = s.now]

updateDriverTouches(s, driverId, updates) ==
  LET index == FindIndex(s.drivers, driverId)
  IN IF index # 0
       THEN [s EXCEPT !.drivers[index] = Merge(@, updates),
                      !.driversLastUpdated = s.now,
                      !.selectedDriver = IF SelectedIs(@, driverId) THEN Merge(@, updates) ELSE @]
       ELSE [s EXCEPT !.driversLastUpdated = s.now]

updateDriver(s, driverId, updates) ==
  LET index == FindIndex(s.drivers, driverId)
  IN IF index # 0
       THEN [s EXCEPT !.drivers[index] = Merge(@, updates),
                      !.driversLastUpdated = s.now,
                      !.selectedDriver = IF SelectedIs(@, driverId) THEN Merge(@, updates) ELSE @]
       ELSE s

addAlertUncounted(s, alert) == [s EXCEPT !.alerts = <<alert>> \o @]

addAlert(s, alert) ==
  [s EXCEPT !.alerts = <<alert>> \o @,
            !.unreadCount = IF ~alert.isRead THEN @ + 1 ELSE @]

setMetrics(s, snapshot) ==
  [s EXCEPT !.metrics = snapshot, !.metricsLastUpdated = s.now, !.metricsError = NoError]

\* the id is Date.now().toString(): the decimal string of the clock, one id
\* per clock value
addNotification(s, notification) ==
  LET newNotification == Merge(notification, [id |-> s.now, createdAt |-> s.now])
  IN [s EXCEPT !.notifications = Append(@, newNotification),
               !.notifTimers =
                  IF "duration" \in DOMAIN notification /\ notification.duration > 0
                    THEN Append(@, [id |-> newNotification.id, delay |-> notification.duration,
                                    createdAt |-> s.now])
                    ELSE @]

removeNotification(s, id) ==
  [s EXCEPT !.notifications = SelectSeq(@, LAMBDA n : n.id # id)]

clearNotifications(s) == [s EXCEPT !.notifications = <<>>]

\* the setTimeout callback of addNotification: get().removeNotification(id)
notificationCallback(s, i) ==
  [removeNotification(s, s.notifTimers[i].id) EXCEPT
     !.notifTimers = SubSeq(@, 1, i - 1) \o SubSeq(@, i + 1, Len(@))]

\* Array.prototype.filter(r => r.id !== id)
WithoutId(records, id) == SelectSeq(records, LAMBDA r : r.id # id)

setTrips(s, list) ==
  [s EXCEPT !.trips = list, !.tripsLastUpdated = s.now]

removeTrip(s, tripId) ==
  [s EXCEPT !.trips = WithoutId(@, tripId),
            !.selectedTrip = IF SelectedIs(@, tripId) THEN Null ELSE @,
            !.tripsLastUpdated = s.now]

selectTrip(s, trip) == [s EXCEPT !.selectedTrip = trip]

clearTrips(s) ==
  [s EXCEPT !.trips = <<>>, !.selectedTrip = Null, !.tripsLastUpdated = NoDate]

addDriver(s, driver) ==
  [s EXCEPT !.drivers = Append(@, driver), !.driversLastUpdated = s.now]

removeDriver(s, driverId) ==
  [s EXCEPT !.drivers = WithoutId(@, driverId),
            !.selectedDriver = IF SelectedIs(@, driverId) THEN Null ELSE @,
            !.driversLastUpdated = s.now]

selectDriver(s, driver) == [s EXCEPT !.selectedDriver = driver]

clearDrivers(s) ==
  [s EXCEPT !.drivers = <<>>, !.selectedDriver = Null, !.driversLastUpdated = NoDate]

\* alerts.filter(a => !a.isRead).length
Unread(list) == Len(SelectSeq(list, LAMBDA a : ~a.isRead))

Max(a, b) == IF a >= b THEN a ELSE b

setAlerts(s, list) ==
  [s EXCEPT !.alerts = list, !.unreadCount = Unread(list)]

\* oldAlert.isRead !== updates.isRead compares a boolean with undefined when
\* updates names no isRead, and is then true; if (updates.isRead) is then false
updateAlert(s, alertId, updates) ==
  LET index == FindIndex(s.alerts, alertId)
  IN IF index # 0
       THEN LET oldAlert == s.alerts[index]
                differs == IF "isRead" \in DOMAIN updates
                             THEN oldAlert.isRead # updates.isRead
                             ELSE TRUE
                truthy == "isRead" \in DOMAIN updates /\ updates.isRead
            IN [s EXCEPT !.alerts[index] = Merge(oldAlert, updates),
                         !.unreadCount = IF differs
                                           THEN IF truthy THEN Max(0, @ - 1) ELSE @ + 1
                                           ELSE @,
                         !.selectedAlert = IF SelectedIs(@, alertId)
                                             THEN Merge(@, updates) ELSE @]
       ELSE s

\* alerts.find is the first record with the id; filter drops every record with it
removeAlert(s, alertId) ==
  LET index == FindIndex(s.alerts, alertId)
  IN [s EXCEPT !.alerts = WithoutId(@, alertId),
               !.unreadCount = IF index # 0 /\ ~s.alerts[index].isRead
                                 THEN Max(0, @ - 1) ELSE @,
               !.selectedAlert = IF SelectedIs(@, alertId) THEN Null ELSE @]

markAsRead(s, alertId) == updateAlert(s, alertId, [isRead |-> TRUE])

markAllAsReadKeepsCount(s) ==
  [s EXCEPT !.alerts = [i \in 1..Len(s.alerts) |-> [s.alerts[i] EXCEPT !.isRead = TRUE]]]

markAllAsRead(s) ==
  [s EXCEPT !.alerts = [i \in 1..Len(s.alerts) |-> [s.alerts[i] EXCEPT !.isRead = TRUE]],
            !.unreadCount = 0]

selectAlert(s, alert) == [s EXCEPT !.selectedAlert = alert]

clearAlerts(s) ==
  [s EXCEPT !.alerts = <<>>, !.unreadCount = 0, !.selectedAlert = Null]

(* ---------------------------------------------------------------------- *)
(* Derived views: getFilteredTrips, getFilteredDrivers (part_007:729-830)  *)
(* Text is a sequence of one-character strings.                            *)
(* ---------------------------------------------------------------------- *)
\* the characters in UTF-16 code unit order: digits, upper case, lower case
CodeUnits == <<"0", "1", "2", "3", "4", "5", "6", "7", "8", "9",
               "A", "B", "C", "D", "E", "F", "G", "H", "I", "J", "K", "L", "M",
               "N", "O", "P", "Q", "R", "S", "T", "U", "V", "W", "X", "Y", "Z",
               "a", "b", "c", "d", "e", "f", "g", "h", "i", "j", "k", "l", "m",
               "n", "o", "p", "q", "r", "s", "t", "u", "v", "w", "x", "y", "z">>

CodeOf(ch) == CHOOSE i \in 1..Len(CodeUnits) : CodeUnits[i] = ch

\* String.prototype.toLowerCase
toLowerCase(text) ==
  [i \in 1..Len(text) |->
     LET code == CodeOf(text[i])
     IN IF code \in 11..36 THEN CodeUnits[code + 26] ELSE text[i]]

\* String.prototype.includes
includes(text, part) ==
  \E k \in 0..(Len(text) - Len(part)) : SubSeq(text, k + 1, k + Len(part)) = part

\* a < b on strings: the first differing code unit decides, a proper prefix is smaller
RECURSIVE TextLess(_, _)
TextLess(a, b) ==
  IF b = <<>> THEN FALSE
  ELSE IF a = <<>> THEN TRUE
  ELSE IF a[1] # b[1] THEN CodeOf(a[1]) < CodeOf(b[1])
  ELSE TextLess(Tail(a), Tail(b))

\* filters.name is set
Has(filters, name) == name \in DOMAIN filters

\* filters.name?.length is truthy: set and not the empty array
HasSome(filters, name) == Has(filters, name) /\ filters[name] # <<>>

\* Array.prototype.includes
Contains(list, x) == \E i \in 1..Len(list) : list[i] = x

\* aValue < bValue, on numbers or on strings
Less(aValue, bValue, textual) ==
  IF textual THEN TextLess(aValue, bValue) ELSE aValue < bValue

\* the sort's compare function answers 1: a goes after b
GoesAfter(aValue, bValue, direction, textual) ==
  IF direction = "asc" THEN Less(bValue, aValue, textual) ELSE Less(aValue, bValue, textual)

\* Array.prototype.sort with that compare function, which never answers 0:
\* each record is put behind the records it goes after; the place of records
\* with equal keys depends on the engine
RECURSIVE SortBy(_, _, _, _)
SortBy(list, field, direction, textual) ==
  IF list = <<>> THEN <<>>
  ELSE LET rest == SortBy(Tail(list), field, direction, textual)
           x == Head(list)
           ahead == {i \in 1..Len(rest) :
                       \A j \in 1..i : GoesAfter(x[field], rest[j][field], direction, textual)}
           n == Cardinality(ahead)
       IN SubSeq(rest, 1, n) \o <<x>> \o SubSeq(rest, n + 1, Len(rest))

\* the stores' sortOptions as constructed (part_007:54, 177)
TripSortOptions == [field |-> "requestedAt", direction |-> "desc"]
DriverSortOptions == [field |-> "firstName", direction |-> "asc"]

setTripFilters(s, filters) == [s EXCEPT !.tripFilters = Merge(@, filters)]

setDriverFilters(s, filters) == [s EXCEPT !.driverFilters = Merge(@, filters)]

\* a getFiltered* call ends by throwing or by returning records, and leaves
\* the store in some state
Returned(s, records) == [threw |-> FALSE, records |-> records, state |-> s]
Thrown(s) == [threw |-> TRUE, records |-> <<>>, state |-> s]

\* filteredTrips.sort(...) sorts in place. When no filter ran, filteredTrips is
\* the store's own array. immer freezes the state it produces unless
\* autoFreeze is switched off; sorting a frozen array of two or more elements
\* throws a TypeError, sorting an unfrozen one reorders the store's collection.
sortTripsInPlace(s, list, ownArray, autoFreeze) ==
  LET sorted == SortBy(list, TripSortOptions.field, TripSortOptions.direction, FALSE)
  IN IF ownArray
       THEN IF autoFreeze /\ Len(list) >= 2
              THEN Thrown(s)
              ELSE Returned([s EXCEPT !.trips = sorted], sorted)
       ELSE Returned(s, sorted)

getFilteredTrips(s, autoFreeze) ==
  LET filters == s.tripFilters
      byStatus == HasSome(filters, "status")
      byServiceType == HasSome(filters, "serviceType")
      byDriver == Has(filters, "driverId") /\ filters.driverId # ""
      byRider == Has(filters, "riderId") /\ filters.riderId # ""
      byDate == Has(filters, "dateRange")
      bySearch == Has(filters, "search") /\ filters.search # <<>>
      a == IF byStatus
             THEN SelectSeq(s.trips, LAMBDA trip : Contains(filters.status, trip.status))
             ELSE s.trips
      b == IF byServiceType
             THEN SelectSeq(a, LAMBDA trip : Contains(filters.serviceType, trip.serviceType))
             ELSE a
      c == IF byDriver
             THEN SelectSeq(b, LAMBDA trip : trip.driver # Null /\ trip.driver.id = filters.driverId)
             ELSE b
      d == IF byRider
             THEN SelectSeq(c, LAMBDA trip : trip.rider.id = filters.riderId)
             ELSE c
      e == IF byDate
             THEN SelectSeq(d, LAMBDA trip : /\ trip.requestedAt >= filters.dateRange.start
                                             /\ trip.requestedAt <= filters.dateRange.end)
             ELSE d
      f == IF bySearch
             THEN LET searchLower == toLowerCase(filters.search)
                  IN SelectSeq(e, LAMBDA trip :
                       \/ includes(toLowerCase(trip.id), searchLower)
                       \/ includes(toLowerCase(trip.rider.firstName), searchLower)
                       \/ includes(toLowerCase(trip.rider.lastName), searchLower)
                       \/ includes(toLowerCase(trip.pickup.address), searchLower)
                       \/ includes(toLowerCase(trip.destination.address), searchLower))
             ELSE e
      ownArray == ~(byStatus \/ byServiceType \/ byDriver \/ byRider \/ byDate \/ bySearch)
  IN sortTripsInPlace(s, f, ownArray, autoFreeze)

sortDriversInPlace(s, list, ownArray, autoFreeze) ==
  LET sorted == SortBy(list, DriverSortOptions.field, DriverSortOptions.direction, TRUE)
  IN IF ownArray
       THEN IF autoFreeze /\ Len(list) >= 2
              THEN Thrown(s)
              ELSE Returned([s EXCEPT !.drivers = sorted], sorted)
       ELSE Returned(s, sorted)

getFilteredDrivers(s, autoFreeze) ==
  LET filters == s.driverFilters
      byStatus == HasSome(filters, "status")
      byAvailability == HasSome(filters, "availability")
      byVehicle == HasSome(filters, "vehicleType")
      byOnline == Has(filters, "onlineOnly") /\ filters.onlineOnly
      bySearch == Has(filters, "search") /\ filters.search # <<>>
      a == IF byStatus
             THEN SelectSeq(s.drivers, LAMBDA driver : Contains(filters.status, driver.status))
             ELSE s.drivers
      b == IF byAvailability
             THEN SelectSeq(a, LAMBDA driver :
                    Contains(filters.availability, driver.availability))
             ELSE a
      c == IF byVehicle
             THEN SelectSeq(b, LAMBDA driver : Contains(filters.vehicleType, driver.vehicle.type))
             ELSE b
      d == IF byOnline THEN SelectSeq(c, LAMBDA driver : driver.isOnline) ELSE c
      e == IF bySearch
             THEN LET searchLower == toLowerCase(filters.search)
                  IN SelectSeq(d, LAMBDA driver :
                       \/ includes(toLowerCase(driver.firstName), searchLower)
                       \/ includes(toLowerCase(driver.lastName), searchLower)
                       \/ includes(toLowerCase(driver.email), searchLower)
                       \/ includes(driver.phone, filters.search)
                       \/ /\ "employeeId" \in DOMAIN driver
                          /\ includes(toLowerCase(driver.employeeId), searchLower))
             ELSE d
      ownArray == ~(byStatus \/ byAvailability \/ byVehicle \/ byOnline \/ bySearch)
  IN sortDriversInPlace(s, e, ownArray, autoFreeze)

(* ---------------------------------------------------------------------- *)
(* useWebSocketStore.handleMessage (part_007:603-657)                      *)
(* ---------------------------------------------------------------------- *)
setLastMessage(s, message) == [s EXCEPT !.lastMessage = message]

unhandledMessageThrows(s, message) == Throw(s)

\* default: console.log('Unhandled WebSocket message type:', type)
unhandledMessage(s, message) == s

\* reading a property of a null payload throws a TypeError
storeHandleMessage(s, message) ==
  LET a == [s EXCEPT !.lastMessage = message]
      payload == message.payload
  IN CASE message.type = "trip_update" ->
            IF payload = Null THEN Throw(a) ELSE updateTrip(a, payload.id, payload)
       [] message.type = "driver_location_update" ->
            IF payload = Null THEN Throw(a)
            ELSE updateDriver(a, payload.driverId,
                              [currentLocation |-> payload.location, lastActive |-> a.now])
       [] message.type = "driver_status_update" ->
            IF payload = Null THEN Throw(a)
            ELSE updateDriver(a, payload.driverId,
                              [status |-> payload.status, availability |-> payload.availability])
       [] message.type = "new_trip_request" ->
            addNotification(addTrip(a, payload),
                            [type |-> "info", title |-> "New Trip Request",
                             message |-> <<"Trip ", payload.id, " has been requested">>,
                             duration |-> 5000])
       [] message.type = "alert_created" ->
            addNotification(addAlert(a, payload),
                            [type |-> IF payload.severity = "critical" THEN "error" ELSE "warning",
                             title |-> "New Alert",
                             message |-> payload.title,
                             duration |-> 10000])
       [] message.type = "metrics_update" -> setMetrics(a, payload)
       [] OTHER -> unhandledMessage(a, message)

(* ---------------------------------------------------------------------- *)
(* WebSocketService.handleMessage and subscribe (websocket.ts:195-313)     *)
(* ---------------------------------------------------------------------- *)
\* what a subscriber can read from the stores
StoresOf(s) ==
  [trips |-> s.trips, selectedTrip |-> s.selectedTrip,
   tripsLastUpdated |-> s.tripsLastUpdated,
   drivers |-> s.drivers, selectedDriver |-> s.selectedDriver,
   driversLastUpdated |-> s.driversLastUpdated,
   alerts |-> s.alerts, unreadCount |-> s.unreadCount, selectedAlert |-> s.selectedAlert,
   metrics |-> s.metrics, metricsLastUpdated |-> s.metricsLastUpdated,
   notifications |-> s.notifications, lastMessage |-> s.lastMessage]

\* this.messageHandlers.get(tag) || []
HandlersFor(s, tag) ==
  IF tag \in DOMAIN s.messageHandlers THEN s.messageHandlers[tag] ELSE <<>>

\* Array.prototype.indexOf; 0 stands for -1
IndexOf(handlers, handler) ==
  IF \E i \in 1..Len(handlers) : handlers[i] = handler
    THEN CHOOSE i \in 1..Len(handlers) :
           /\ handlers[i] = handler
           /\ \A j \in 1..(i - 1) : handlers[j] # handler
    ELSE 0

\* handlers.splice(index, 1)
Splice(handlers, index) ==
  SubSeq(handlers, 1, index - 1) \o SubSeq(handlers, index + 1, Len(handlers))

\* the function subscribe(messageType, handler) returned (websocket.ts:304-312)
unsubscribe(s, messageType, handler) ==
  IF messageType \in DOMAIN s.messageHandlers
    THEN LET handlers == s.messageHandlers[messageType]
             index == IndexOf(handlers, handler)
         IN IF index > 0
              THEN [s EXCEPT !.messageHandlers[messageType] = Splice(handlers, index)]
              ELSE s
    ELSE s

\* observation: the n-th subscribe() call's registration is no longer due
Released(s, n) == [s EXCEPT !.subscriptions[n].live = FALSE]

\* the subscribe() calls for this tag and handler whose registration is due
DueFor(s, tag, h) ==
  {n \in 1..Len(s.subscriptions) :
     s.subscriptions[n] = [tag |-> tag, handler |-> h, live |-> TRUE]}

\* a quitter invokes the unsubscribe function of its earliest registration
\* under the tag being dispatched
quit(s, tag, h) ==
  LET due == DueFor(s, tag, h)
      u == unsubscribe(s, tag, h)
  IN IF due = {} THEN u
     ELSE Released(u, CHOOSE n \in due : \A o \in due : n <= o)

\* the handler's own effect: a reader reads the stores, a thrower throws, a
\* quitter unsubscribes itself
runHandler(s, tag, h) ==
  CASE Kind(h) = "reader" -> [s EXCEPT !.pass.views = @ \cup {StoresOf(s)}]
    [] Kind(h) = "thrower" -> Throw(s)
    [] Kind(h) = "quitter" -> quit(s, tag, h)

invokeUncaught(s, tag, h) ==
  runHandler([s EXCEPT !.pass.calls = Append(@, h)], tag, h)

\* try { handler(message) } catch (error) { console.error(...) }
invoke(s, tag, h) ==
  [runHandler([s EXCEPT !.pass.calls = Append(@, h)], tag, h) EXCEPT !.threw = FALSE]

\* handlers.forEach(...): indices 1..len of the array as it is when each index
\* is visited, len taken when the loop starts; an exception leaves the loop
RECURSIVE forEachHandler(_, _, _, _)
forEachHandler(s, tag, k, len) ==
  IF k > len \/ s.threw
    THEN s
    ELSE LET handlers == HandlersFor(s, tag)
         IN forEachHandler(IF k <= Len(handlers) THEN invoke(s, tag, handlers[k]) ELSE s,
                           tag, k + 1, len)

notify(s, tag) == forEachHandler(s, tag, 1, Len(HandlersFor(s, tag)))

\* the outer catch (websocket.ts:223-226)
catchAll(s) ==
  IF s.threw
    THEN handleError([s EXCEPT !.threw = FALSE], "Failed to process incoming message")
    ELSE s

handleMessageNotifyFirst(s, message) ==
  LET a == setLastMessage(s, message)
      b == notify(a, message.type)
      c == IF b.threw THEN b ELSE notify(b, "all")
      d == IF c.threw THEN c ELSE storeHandleMessage(c, message)
  IN catchAll(d)

handleMessage(s, message) ==
  LET a == setLastMessage(s, message)
      b == storeHandleMessage(a, message)
      c == IF b.threw THEN b ELSE notify(b, message.type)
      d == IF c.threw THEN c ELSE notify(c, "all")
  IN catchAll(d)

subscribe(s, messageType, handler) ==
  [s EXCEPT !.messageHandlers[messageType] = Append(@, handler)]

(* ---------------------------------------------------------------------- *)
(* Initial state: the singleton as constructed (websocket.ts:27-35) and    *)
(* the store's initial state (part_007:575-578)                            *)
(* ---------------------------------------------------------------------- *)
ConnInit ==
  /\ socket = NoSocket
  /\ config = NoConfig
  /\ reconnectAttempts = 0
  /\ heartbeatInterval = FALSE
  /\ isConnecting = FALSE
  /\ isInitialized = FALSE
  /\ sockets = [id \in SocketIds |-> "none"]
  /\ sendBuffer = [id \in SocketIds |-> <<>>]
  /\ intervals = 0
  /\ timers = <<>>
  /\ isConnected = FALSE
  /\ connectionError = NoError
  /\ out = {}
  /\ lastOp = "init"
  /\ failures = 0
  /\ failuresSinceHandshake = 0
  /\ exhausted = FALSE
  /\ authFailed = FALSE
  /\ stopped = FALSE
  /\ autoSocket = FALSE
  /\ autoFailed = 0
  /\ sendSeq = 0
  /\ dropped = {}

\* the stores' initial states (part_007:51-56, 174-179, 293-297, 411-414, 575-578)
RouterInit ==
  /\ lastMessage = Null
  /\ messageHandlers = [tag \in Tags |-> <<>>]
  /\ trips = <<>>
  /\ selectedTrip = Null
  /\ tripsLastUpdated = NoDate
  /\ drivers = <<>>
  /\ selectedDriver = Null
  /\ driversLastUpdated = NoDate
  /\ alerts = <<>>
  /\ unreadCount = 0
  /\ selectedAlert = Null
  /\ metrics = Null
  /\ metricsLastUpdated = NoDate
  /\ metricsError = NoError
  /\ notifications = <<>>
  /\ notifTimers = <<>>
  /\ now = 0
  /\ received = 0
  /\ subscriptions = <<>>
  /\ tripFilters = NoFilters
  /\ driverFilters = NoFilters
  /\ lastView = Null
  /\ pass = EmptyPass

Init == ConnInit /\ RouterInit

(* ---------------------------------------------------------------------- *)
(* Actions: the caller's calls                                             *)
(* ---------------------------------------------------------------------- *)
Connect(c) ==
  /\ connectCreates(Svc) => CanCreate(Svc)
  /\ Commit([connect(Svc, c) EXCEPT !.exhausted = FALSE])
  /\ lastOp' = "connect"
  /\ authFailed' = FALSE
  /\ stopped' = FALSE
  /\ autoSocket' = FALSE
  /\ autoFailed' = 0
  /\ UNCHANGED <<sendSeq, dropped, received>>

Disconnect ==
  /\ Commit(disconnect(Svc))
  /\ lastOp' = "disconnect"
  /\ stopped' = TRUE
  /\ UNCHANGED <<authFailed, autoSocket, autoFailed, sendSeq, dropped, received>>

Send ==
  /\ sendSeq < MaxSends
  /\ Commit(send(Svc, SendFrame(sendSeq + 1)))
  /\ sendSeq' = sendSeq + 1
  /\ dropped' = IF SocketConnected(Svc) THEN dropped ELSE dropped \cup {sendSeq + 1}
  /\ lastOp' = "send"
  /\ UNCHANGED <<authFailed, stopped, autoSocket, autoFailed, received>>

(* ---------------------------------------------------------------------- *)
(* Actions: transport events                                               *)
(* ---------------------------------------------------------------------- *)
SocketConnect(id) ==
  /\ sockets[id] = "connecting"
  /\ Commit(onConnect(Svc, id))
  /\ lastOp' = "on connect"
  /\ autoFailed' = 0
  /\ UNCHANGED <<authFailed, stopped, autoSocket, sendSeq, dropped, received>>

SocketDisconnect(id, reason) ==
  /\ sockets[id] = "connected"
  /\ Commit(onDisconnect([Svc EXCEPT !.sockets[id] = "closed"], reason))
  /\ lastOp' = "on disconnect"
  /\ UNCHANGED <<authFailed, stopped, autoSocket, autoFailed, sendSeq, dropped, received>>

SocketConnectError(id) ==
  /\ sockets[id] = "connecting"
  /\ Commit(onConnectError(Svc, id))
  /\ lastOp' = "on connect_error"
  /\ autoFailed' = IF id = socket /\ autoSocket /\ autoFailed < RECONNECT_ATTEMPTS
                     THEN autoFailed + 1 ELSE autoFailed
  /\ UNCHANGED <<authFailed, stopped, autoSocket, sendSeq, dropped, received>>

SocketError(id) ==
  /\ sockets[id] = "connected"
  /\ Commit(onError(Svc))
  /\ lastOp' = "on error"
  /\ UNCHANGED <<authFailed, stopped, autoSocket, autoFailed, sendSeq, dropped, received>>

SocketAuthError(id) ==
  /\ sockets[id] = "connected"
  /\ Commit(onAuthError(Svc))
  /\ lastOp' = "on auth_error"
  /\ authFailed' = TRUE
  /\ UNCHANGED <<stopped, autoSocket, autoFailed, sendSeq, dropped, received>>

(* ---------------------------------------------------------------------- *)
(* Actions: timers                                                         *)
(* ---------------------------------------------------------------------- *)
RemoveAt(seq, i) == SubSeq(seq, 1, i - 1) \o SubSeq(seq, i + 1, Len(seq))

\* setTimeout: of two pending callbacks, the one scheduled first with a delay
\* no longer than the other's runs first
MayFire(i) == \A j \in 1..(i - 1) : timers[j] > timers[i]

ReconnectTimer(i) ==
  /\ i \in 1..Len(timers)
  /\ MayFire(i)
  /\ LET s == [Svc EXCEPT !.timers = RemoveAt(@, i)]
     IN /\ reconnectCallbackCreates(s) => CanCreate(s)
        /\ Commit(reconnectCallback(s))
        /\ autoSocket' = (reconnectCallbackCreates(s) \/ autoSocket)
  /\ lastOp' = "reconnect timer"
  /\ UNCHANGED <<authFailed, stopped, autoFailed, sendSeq, dropped, received>>

HeartbeatTick ==
  /\ intervals > 0
  /\ Commit(heartbeatCallback(Svc))
  /\ lastOp' = "heartbeat"
  /\ UNCHANGED <<authFailed, stopped, autoSocket, autoFailed, sendSeq, dropped, received>>

Next ==
  \/ \E c \in Configs : Connect(c)
  \/ Disconnect
  \/ Send
  \/ \E id \in SocketIds : SocketConnect(id)
  \/ \E id \in SocketIds, reason \in ServerReasons : SocketDisconnect(id, reason)
  \/ \E id \in SocketIds : SocketConnectError(id)
  \/ \E id \in SocketIds : SocketError(id)
  \/ \E id \in SocketIds : SocketAuthError(id)
  \/ \E i \in 1..MaxSockets : ReconnectTimer(i)
  \/ HeartbeatTick

Spec == Init /\ [][Next]_vars

(* ---------------------------------------------------------------------- *)
(* Actions: subscribers, inbound events, the stores' other writers         *)
(* ---------------------------------------------------------------------- *)
connGhosts == <<authFailed, stopped, autoSocket, autoFailed, sendSeq, dropped>>

\* the first connect() of a session
InitialConnect ==
  /\ socket = NoSocket
  /\ \E c \in Configs : Connect(c)

Subscribe(messageType, handler) ==
  /\ Len(subscriptions) < MaxSubs
  /\ Commit([subscribe(Svc, messageType, handler) EXCEPT
               !.subscriptions = Append(@, [tag |-> messageType, handler |-> handler,
                                            live |-> TRUE])])
  /\ lastOp' = "subscribe"
  /\ UNCHANGED <<connGhosts, received>>

\* the caller invokes the unsubscribe function the n-th subscribe() call returned
Unsubscribe(n) ==
  /\ n \in 1..Len(subscriptions)
  /\ Commit(Released(unsubscribe(Svc, subscriptions[n].tag, subscriptions[n].handler), n))
  /\ lastOp' = "unsubscribe"
  /\ UNCHANGED <<connGhosts, received>>

\* socket.on('message') and socket.on(messageType): an event arrives on the
\* connected transport; the per-type listener wraps the data in a message of
\* its type before handing it to handleMessage
Receive(message) ==
  /\ SocketConnected(Svc)
  /\ received < MaxMessages
  /\ LET s == [Svc EXCEPT !.pass = EmptyPass]
         r == handleMessage(s, message)
     IN Commit([r EXCEPT !.pass.changed = (StoresOf(r) # StoresOf(setLastMessage(s, message))),
                         !.pass.storeThrew = storeHandleMessage(s, message).threw])
  /\ received' = received + 1
  /\ lastOp' = "message"
  /\ UNCHANGED connGhosts

\* the driver list loaded over REST
SetDrivers(list) ==
  /\ Commit(setDrivers(Svc, list))
  /\ lastOp' = "setDrivers"
  /\ UNCHANGED <<connGhosts, received>>

RouterNext ==
  \/ InitialConnect
  \/ \E id \in SocketIds : SocketConnect(id)
  \/ \E tag \in SubscribedTags, h \in Handlers : Subscribe(tag, h)
  \/ \E m \in Inbound : Receive(m)
  \/ \E d \in DriverRecords : SetDrivers(<<d>>)

RouterSpec == Init /\ [][RouterNext]_vars

(* ---------------------------------------------------------------------- *)
(* Actions: the stores' actions called directly                            *)
(* ---------------------------------------------------------------------- *)
StoreStep(s, op) ==
  /\ Commit([s EXCEPT !.lastView = Null])
  /\ lastOp' = op
  /\ UNCHANGED <<connGhosts, received>>

\* a call of a filtered view: lastView is what the caller observes, until the
\* next call of a store
ViewStep(s, view, op) ==
  /\ Commit([s EXCEPT !.lastView = view])
  /\ lastOp' = op
  /\ UNCHANGED <<connGhosts, received>>

\* the elements of a collection, and null: what the UI passes to select
Selectable(records) == {records[i] : i \in 1..Len(records)} \cup {Null}

SetTrips(list) == StoreStep(setTrips(Svc, list), "setTrips")

AddTrip(trip) ==
  /\ Len(trips) < MaxRecords
  /\ StoreStep(addTrip(Svc, trip), "addTrip")

UpdateTrip(tripId, updates) ==
  StoreStep(updateTrip(Svc, tripId, updates), "updateTrip")

RemoveTrip(tripId) == StoreStep(removeTrip(Svc, tripId), "removeTrip")

SelectTrip(trip) == StoreStep(selectTrip(Svc, trip), "selectTrip")

ClearTrips == StoreStep(clearTrips(Svc), "clearTrips")

LoadDrivers(list) == StoreStep(setDrivers(Svc, list), "setDrivers")

AddDriver(driver) ==
  /\ Len(drivers) < MaxRecords
  /\ StoreStep(addDriver(Svc, driver), "addDriver")

UpdateDriver(driverId, updates) ==
  StoreStep(updateDriver(Svc, driverId, updates), "updateDriver")

RemoveDriver(driverId) ==
  StoreStep(removeDriver(Svc, driverId), "removeDriver")

SelectDriver(driver) ==
  StoreStep(selectDriver(Svc, driver), "selectDriver")

ClearDrivers == StoreStep(clearDrivers(Svc), "clearDrivers")

SetAlerts(list) == StoreStep(setAlerts(Svc, list), "setAlerts")

AddAlert(alert) ==
  /\ Len(alerts) < MaxRecords
  /\ unreadCount < MaxUnread
  /\ StoreStep(addAlert(Svc, alert), "addAlert")

UpdateAlert(alertId, updates) ==
  /\ unreadCount < MaxUnread
  /\ StoreStep(updateAlert(Svc, alertId, updates), "updateAlert")

RemoveAlert(alertId) == StoreStep(removeAlert(Svc, alertId), "removeAlert")

MarkAsRead(alertId) == StoreStep(markAsRead(Svc, alertId), "markAsRead")

MarkAllAsRead == StoreStep(markAllAsRead(Svc), "markAllAsRead")

SelectAlert(alert) == StoreStep(selectAlert(Svc, alert), "selectAlert")

ClearAlerts == StoreStep(clearAlerts(Svc), "clearAlerts")

\* the clock reaches its next reading
Tick ==
  /\ now < MaxClock
  /\ Commit([Svc EXCEPT !.now = @ + 1])
  /\ lastOp' = "tick"
  /\ UNCHANGED <<connGhosts, received>>

\* useUIStore's notification actions; a toast is added while the clock can
\* still advance past it
AddNotification(notification) ==
  /\ now < MaxClock
  /\ Len(notifications) < MaxRecords
  /\ Len(notifTimers) < MaxRecords
  /\ StoreStep(addNotification(Svc, notification), "addNotification")

\* the X button of a displayed toast, or a call with an id that is not shown
RemoveNotification(id) == StoreStep(removeNotification(Svc, id), "removeNotification")

ClearNotifications == StoreStep(clearNotifications(Svc), "clearNotifications")

\* a pending auto-dismiss timer fires: its delay is positive, so the clock has
\* moved on since it was set
NotificationTimer(i) ==
  /\ i \in 1..Len(notifTimers)
  /\ now > notifTimers[i].createdAt
  /\ StoreStep(notificationCallback(Svc, i), "notification timer")

SetTripFilters(filters) == StoreStep(setTripFilters(Svc, filters), "setTripFilters")

SetDriverFilters(filters) == StoreStep(setDriverFilters(Svc, filters), "setDriverFilters")

\* what a caller of a filtered view observes, with the collection and the
\* filters the call started from
Viewed(outcome, collection, filters, ofTrips) ==
  [threw |-> outcome.threw, records |-> outcome.records,
   collection |-> collection, filters |-> filters, ofTrips |-> ofTrips]

GetFilteredTrips ==
  \E autoFreeze \in AutoFreeze :
    LET outcome == getFilteredTrips(Svc, autoFreeze)
    IN ViewStep(outcome.state, Viewed(outcome, trips, tripFilters, TRUE), "getFilteredTrips")

GetFilteredDrivers ==
  \E autoFreeze \in AutoFreeze :
    LET outcome == getFilteredDrivers(Svc, autoFreeze)
    IN ViewStep(outcome.state, Viewed(outcome, drivers, driverFilters, FALSE),
                "getFilteredDrivers")

\* the stores share no state: a run works on one store at a time, the others
\* being as constructed
TripStoreIdle == trips = <<>> /\ selectedTrip = Null /\ tripsLastUpdated = NoDate
DriverStoreIdle == drivers = <<>> /\ selectedDriver = Null /\ driversLastUpdated = NoDate
AlertStoreIdle == alerts = <<>> /\ selectedAlert = Null /\ unreadCount = 0

TripStoreNext ==
  \/ \E list \in Loads(StoredTrips) : SetTrips(list)
  \/ \E trip \in StoredTrips : AddTrip(trip)
  \/ \E id \in LookupTripIds, updates \in TripUpdates : UpdateTrip(id, updates)
  \/ \E id \in LookupTripIds : RemoveTrip(id)
  \/ \E trip \in Selectable(trips) : SelectTrip(trip)
  \/ ClearTrips

DriverStoreNext ==
  \/ \E list \in Loads(Roster) : LoadDrivers(list)
  \/ \E driver \in Roster : AddDriver(driver)
  \/ \E id \in LookupDriverIds, updates \in DriverUpdates : UpdateDriver(id, updates)
  \/ \E id \in LookupDriverIds : RemoveDriver(id)
  \/ \E driver \in Selectable(drivers) : SelectDriver(driver)
  \/ ClearDrivers

AlertStoreNext ==
  \/ \E list \in Loads(StoredAlerts) : SetAlerts(list)
  \/ \E alert \in StoredAlerts : AddAlert(alert)
  \/ \E id \in LookupAlertIds, updates \in AlertUpdates : UpdateAlert(id, updates)
  \/ \E id \in LookupAlertIds : RemoveAlert(id)
  \/ \E id \in LookupAlertIds : MarkAsRead(id)
  \/ MarkAllAsRead
  \/ \E alert \in Selectable(alerts) : SelectAlert(alert)
  \/ ClearAlerts

StoreNext ==
  \/ DriverStoreIdle /\ AlertStoreIdle /\ TripStoreNext
  \/ TripStoreIdle /\ AlertStoreIdle /\ DriverStoreNext
  \/ TripStoreIdle /\ DriverStoreIdle /\ AlertStoreNext
  \/ Tick

StoreSpec == Init /\ [][StoreNext]_vars

\* the Alert store under the calls that add alerts and mark them read, and
\* the selection the UI makes meanwhile
UnreadNext ==
  \/ \E list \in Loads(StoredAlerts) : SetAlerts(list)
  \/ \E alert \in StoredAlerts : AddAlert(alert)
  \/ \E id \in LookupAlertIds : MarkAsRead(id)
  \/ MarkAllAsRead
  \/ \E alert \in Selectable(alerts) : SelectAlert(alert)

UnreadSpec == Init /\ [][UnreadNext]_vars

\* the Trip and Driver stores under the filter panel: records arrive, filters
\* are set, the filtered views are read
TripViewIdle == TripStoreIdle /\ tripFilters = NoFilters
DriverViewIdle == DriverStoreIdle /\ driverFilters = NoFilters

FilterNext ==
  \/ DriverViewIdle /\ \E trip \in ListedTrips : AddTrip(trip)
  \/ DriverViewIdle /\ \E filters \in TripFilterUpdates : SetTripFilters(filters)
  \/ DriverViewIdle /\ GetFilteredTrips
  \/ TripViewIdle /\ \E driver \in ListedDrivers : AddDriver(driver)
  \/ TripViewIdle /\ \E filters \in DriverFilterUpdates : SetDriverFilters(filters)
  \/ TripViewIdle /\ GetFilteredDrivers

FilterSpec == Init /\ [][FilterNext]_vars

\* the trip and alert flows: the dispatcher empties the trip list and adds
\* pending trips, events arrive on the connected transport, alerts are marked
\* read
FlowNext ==
  \/ InitialConnect
  \/ \E id \in SocketIds : SocketConnect(id)
  \/ SetTrips(<<>>)
  \/ \E trip \in Trips : AddTrip(trip)
  \/ \E m \in FlowEvents : Receive(m)
  \/ \E id \in LookupAlertIds : MarkAsRead(id)

FlowSpec == Init /\ [][FlowNext]_vars

\* the toasts: added, dismissed by the user, dismissed by their timers, while
\* the clock advances
ToastNext ==
  \/ \E notification \in Toasts : AddNotification(notification)
  \/ \E id \in 0..MaxClock : RemoveNotification(id)
  \/ ClearNotifications
  \/ \E i \in 1..MaxRecords : NotificationTimer(i)
  \/ Tick

ToastSpec == Init /\ [][ToastNext]_vars

\* timers fire: time passes and every pending timer's callback runs
ToastLiveSpec ==
  /\ ToastSpec
  /\ WF_vars(Tick)
  /\ \A i \in 1..MaxRecords : WF_vars(NotificationTimer(i))

\* the registry under subscribers that come and go, some of them from inside
\* their own callback
DispatchNext ==
  \/ InitialConnect
  \/ \E id \in SocketIds : SocketConnect(id)
  \/ \E tag \in SubscribedTags, h \in Handlers \cup Quitters : Subscribe(tag, h)
  \/ \E n \in 1..MaxSubs : Unsubscribe(n)
  \/ \E m \in Inbound : Receive(m)

DispatchSpec == Init /\ [][DispatchNext]_vars

(* ====================================================================== *)
(* Properties of the connection manager                                    *)
(* ====================================================================== *)
svcVars == <<socket, config, reconnectAttempts, heartbeatInterval, isConnecting,
             isInitialized, sockets, sendBuffer, intervals, timers, isConnected,
             connectionError>>

LastTimer(seq) == seq[Len(seq)]

\* the delays the backoff is to produce for attempts 1..5, in ms
ExpectedDelay == <<3000, 6000, 12000, 24000, 48000>>

\* C1: in every reachable state at most one transport is live (connecting or
\* connected), and it is the one the service holds: every transport the
\* service has let go of (replaced by connect() or dropped by disconnect())
\* was closed first.
C1_SingleLiveTransport ==
  /\ \A id \in SocketIds : Live(sockets[id]) => id = socket
  /\ Cardinality({id \in SocketIds : Live(sockets[id])}) <= 1

\* C1 witness: connect() has just replaced a transport: the old one is closed,
\* the new one is live.
C1_Witness ==
  /\ lastOp \in {"connect", "reconnect timer"}
  /\ socket # NoSocket /\ Live(sockets[socket])
  /\ \E old \in SocketIds : old # socket /\ sockets[old] = "closed"

\* C2 as amended: counting the failure events (unexpected disconnects and
\* connection errors) since the last successful handshake or disconnect()
\* call, the N-th of them (N = 1..5) schedules a reconnect timer with delay
\* RECONNECT_DELAY * 2^(N-1), and with reconnectAttempts at RECONNECT_ATTEMPTS
\* no step adds a timer.
C2_BackoffSinceReset ==
  [][ /\ Len(timers') > Len(timers) =>
           /\ Len(timers') = Len(timers) + 1
           /\ failures' \in 1..RECONNECT_ATTEMPTS
           /\ failures' = failures + 1
           /\ LastTimer(timers') = ExpectedDelay[failures']
      /\ reconnectAttempts >= RECONNECT_ATTEMPTS => Len(timers') <= Len(timers)
      /\ (failures' = failures + 1 /\ failures' <= RECONNECT_ATTEMPTS)
            => Len(timers') = Len(timers) + 1
    ]_vars

\* C2 witness: the fifth consecutive failure has scheduled the 48000 ms timer.
C2_Witness ==
  /\ failures = RECONNECT_ATTEMPTS
  /\ reconnectAttempts = RECONNECT_ATTEMPTS
  /\ timers # <<>> /\ LastTimer(timers) = 48000

\* C2 as stated: the count N runs over the failure events since the last
\* successful handshake only.
C2_BackoffSinceHandshake ==
  [][ Len(timers') > Len(timers) =>
        /\ failuresSinceHandshake' \in 1..RECONNECT_ATTEMPTS
        /\ LastTimer(timers') = ExpectedDelay[failuresSinceHandshake']
    ]_vars

\* C3: once five reconnect-timer attempts in a row have failed and
\* scheduleReconnect has hit the cap, and until the caller calls connect()
\* again, no reconnect timer is pending, no transport is live, and the store
\* holds isConnected = false with a connection error.
C3_TerminalAfterExhaustion ==
  (exhausted /\ autoFailed >= RECONNECT_ATTEMPTS) =>
    /\ timers = <<>>
    /\ \A id \in SocketIds : ~Live(sockets[id])
    /\ ~isConnected
    /\ connectionError # NoError

\* C4: after an auth_error has been handled, and until the caller calls
\* connect() again, the service holds no transport (none is created).
C4_NoReconnectAfterAuthError ==
  authFailed => socket = NoSocket /\ \A id \in SocketIds : ~Live(sockets[id])

\* C5: after the caller's disconnect(), and until the caller calls connect()
\* again, no transport is created, no heartbeat probe is sent and the store's
\* isConnected stays false.
C5_DisconnectCancelsTimers ==
  stopped =>
    /\ socket = NoSocket
    /\ \A id \in SocketIds : ~Live(sockets[id])
    /\ PingFrame \notin out
    /\ ~isConnected

\* C6: a connect() call made while the held transport is connecting or
\* connected changes neither the held transport nor any transport's state.
C6_ConnectWhileLiveIsNoop ==
  [][ (lastOp' = "connect" /\ socket # NoSocket /\ Live(sockets[socket]))
        => UNCHANGED <<socket, sockets>> ]_vars

\* C7: from every reachable state, a second disconnect() right after a first
\* one changes nothing of the service or the store: socket = null, no
\* heartbeat timer, reconnectAttempts = 0, isConnected = false are kept.
C7_DisconnectIdempotent ==
  LET once == disconnect(Svc)
  IN /\ disconnect(once) = once
     /\ once.socket = NoSocket
     /\ ~once.heartbeatInterval
     /\ once.reconnectAttempts = 0
     /\ ~once.isConnected

\* C7 witness: disconnect() has just torn down a session that had failed (an
\* error stored, a reconnect timer pending) and may be called again.
C7_Witness ==
  /\ lastOp = "disconnect"
  /\ socket = NoSocket
  /\ \E id \in SocketIds : sockets[id] = "closed"
  /\ connectionError # NoError
  /\ timers # <<>>

\* C8: a frame that send() was given while the transport was absent or not
\* connected is never put on the wire, neither by that call nor by any later
\* step (a later handshake included), and that send() call changes nothing of
\* the service, the transports or the store.
C8_SendDroppedNotQueued ==
  /\ [](\A f \in out : f.type = "message" => f.seq \notin dropped)
  /\ [][ (lastOp' = "send" /\ sendSeq' # sendSeq /\ ~SocketConnected(Svc))
           => (UNCHANGED svcVars /\ out' = {}) ]_vars

\* C8 witness: a frame was dropped and a handshake has completed since.
C8_Witness ==
  /\ dropped # {}
  /\ lastOp = "on connect"
  /\ SocketConnected(Svc)

(* ====================================================================== *)
(* Properties of the message router                                        *)
(* ====================================================================== *)
ThrowerCalled(calls) == \E k \in 1..Len(calls) : Kind(calls[k]) = "thrower"

\* C9: for an event of a built-in type, the store update is complete before
\* any type-specific or wildcard subscriber runs: what every subscriber read
\* from the stores inside its callback is what the stores hold once
\* handleMessage has returned.
C9_SubscribersSeeUpdatedStores ==
  (lastOp = "message" /\ lastMessage.type \in BuiltinTypes)
    => \A view \in pass.views : view = StoresOf(Svc)

\* C9 witness: a trip_update that changed the stores was delivered to a
\* type-specific and to a wildcard subscriber, and a subscriber read the stores.
C9_Witness ==
  /\ lastOp = "message"
  /\ lastMessage.type = "trip_update"
  /\ pass.changed
  /\ pass.views # {}
  /\ messageHandlers["trip_update"] # <<>>
  /\ messageHandlers["all"] # <<>>
  /\ Len(pass.calls) = Len(messageHandlers["trip_update"]) + Len(messageHandlers["all"])

\* C10: in a handleMessage pass in which a subscriber throws, every handler
\* registered for the event's type and then every handler registered for
\* 'all' is still called exactly once, in registration order, and the
\* exception neither reaches the error channel nor changes the connection
\* state (store isConnected and connectionError keep their values).
C10_HandlerExceptionIsolated ==
  [][ (lastOp' = "message" /\ ThrowerCalled(pass'.calls))
        => /\ pass'.calls = HandlersFor(Svc, lastMessage'.type) \o HandlersFor(Svc, "all")
           /\ UNCHANGED <<isConnected, connectionError, socket, sockets, timers,
                          reconnectAttempts, messageHandlers>> ]_vars

\* C10 witness: the first handler called in a pass threw, and a wildcard
\* handler registered after it was called all the same.
C10_Witness ==
  /\ lastOp = "message"
  /\ Len(pass.calls) >= 2
  /\ Kind(pass.calls[1]) = "thrower"
  /\ messageHandlers["all"] # <<>>
  /\ pass.calls = HandlersFor(Svc, lastMessage.type) \o HandlersFor(Svc, "all")
  /\ connectionError = NoError

domainVars == <<trips, selectedTrip, tripsLastUpdated, drivers, selectedDriver,
                driversLastUpdated, alerts, unreadCount, selectedAlert, metrics,
                metricsLastUpdated, metricsError, notifications, notifTimers>>

\* C11: an event whose type is not one of the six built-in types changes no
\* domain store (trips, drivers, alerts, metrics, notifications and their
\* selections, counters and timestamps keep their values), and is still
\* delivered to every handler registered for its own tag and to every
\* wildcard handler.
C11_UnknownTypeOnlyDispatched ==
  [][ (lastOp' = "message" /\ lastMessage'.type \notin BuiltinTypes)
        => /\ UNCHANGED domainVars
           /\ UNCHANGED <<isConnected, connectionError>>
           /\ pass'.calls = HandlersFor(Svc, lastMessage'.type) \o HandlersFor(Svc, "all") ]_vars

\* C11 witness: an event with a tag outside the enum arrived while the stores
\* held records, and the wildcard subscribers were called.
C11_Witness ==
  /\ lastOp = "message"
  /\ lastMessage.type = "shift_changed"
  /\ trips # <<>>
  /\ notifications # <<>>
  /\ messageHandlers["all"] # <<>>
  /\ pass.calls = messageHandlers["all"]

\* the handlers whose registration under the tag is due, in subscribe() order
DueHandlers(tag) ==
  LET due == SelectSeq(subscriptions, LAMBDA x : x.tag = tag /\ x.live)
  IN [i \in 1..Len(due) |-> due[i].handler]

Count(h, calls) == Cardinality({k \in 1..Len(calls) : calls[k] = h})

\* C12: the function subscribe(tag, handler) returned removes exactly its own
\* registration and is idempotent: whatever unsubscribe functions have been
\* called, and however often, the registry holds under each tag exactly the
\* handlers of the subscribe() calls whose own function has not been called,
\* in registration order; a second registration of the same handler under
\* the same tag survives.
C12_UnsubscribeOwnRegistrationOnly ==
  \A tag \in Tags : messageHandlers[tag] = DueHandlers(tag)

\* C13: when a handler unsubscribes itself during a dispatch pass, no
\* exception reaches the error channel and every other handler registered
\* for the event's type or for 'all' when the pass started is still called
\* exactly once per registration.
C13_UnsubscribeDuringDispatchSkipsNone ==
  [][ (lastOp' = "message" /\ ~pass'.storeThrew)
        => /\ connectionError' = connectionError
           /\ \A h \in Handlers :
                Count(h, pass'.calls) = Count(h, HandlersFor(Svc, lastMessage'.type))
                                        + Count(h, HandlersFor(Svc, "all")) ]_vars

(* ====================================================================== *)
(* Properties of the domain stores                                         *)
(* ====================================================================== *)
\* after is before with the record at index shallow-merged with updates and
\* nothing else touched
MergedAt(before, after, index, updates) ==
  /\ Len(after) = Len(before)
  /\ \A i \in 1..Len(before) : i # index => after[i] = before[i]
  /\ DOMAIN after[index] = DOMAIN before[index] \cup DOMAIN updates
  /\ \A f \in DOMAIN updates : after[index][f] = updates[f]
  /\ \A f \in DOMAIN before[index] \ DOMAIN updates : after[index][f] = before[index][f]

\* the selected record got the same fields if it has the id, and is untouched if not
SelectedMerged(before, after, id, updates) ==
  IF before # Null /\ before.id = id
    THEN /\ \A f \in DOMAIN updates : after[f] = updates[f]
         /\ \A f \in DOMAIN before \ DOMAIN updates : after[f] = before[f]
    ELSE after = before

Present(records, id) == \E i \in 1..Len(records) : records[i].id = id

First(records, id) == CHOOSE i \in 1..Len(records) :
                        records[i].id = id /\ \A j \in 1..(i - 1) : records[j].id # id

\* C14: updateTrip / updateDriver / updateAlert(id, partial) on an id present
\* in the collection is a shallow merge: the fields partial names take its
\* values, every other field of the record keeps its value, every other
\* record and the collection's length and order are unchanged, and a selected
\* record with that id receives the same fields.
C14_UpdateIsShallowMerge ==
  /\ \A id \in TripIds, updates \in TripUpdates :
       Present(trips, id) =>
         LET r == updateTrip(Svc, id, updates)
         IN /\ MergedAt(trips, r.trips, First(trips, id), updates)
            /\ SelectedMerged(selectedTrip, r.selectedTrip, id, updates)
  /\ \A id \in RosterIds, updates \in DriverUpdates :
       Present(drivers, id) =>
         LET r == updateDriver(Svc, id, updates)
         IN /\ MergedAt(drivers, r.drivers, First(drivers, id), updates)
            /\ SelectedMerged(selectedDriver, r.selectedDriver, id, updates)
  /\ \A id \in InboxIds, updates \in AlertUpdates :
       Present(alerts, id) =>
         LET r == updateAlert(Svc, id, updates)
         IN /\ MergedAt(alerts, r.alerts, First(alerts, id), updates)
            /\ SelectedMerged(selectedAlert, r.selectedAlert, id, updates)

\* C14 witness: updateAlert(id, {severity}) has run on the selected alert of
\* a two-alert inbox: that alert and the selection carry the new severity,
\* the other alert does not.
C14_Witness ==
  /\ lastOp = "updateAlert"
  /\ Len(alerts) = 2
  /\ \E i, j \in 1..2 : alerts[i].severity = "low" /\ alerts[j].severity = "critical"
  /\ selectedAlert # Null
  /\ selectedAlert.severity = "low"

\* the events that update a record by id
TripUpdateEvent(id) ==
  [type |-> "trip_update", payload |-> [id |-> id, status |-> "assigned"]]
DriverLocationEvent(id) ==
  [type |-> "driver_location_update", payload |-> [driverId |-> id, location |-> "airport"]]
DriverStatusEvent(id) ==
  [type |-> "driver_status_update",
   payload |-> [driverId |-> id, status |-> "busy", availability |-> "busy"]]

\* C15: an update on an id that is not in the collection (updateTrip,
\* updateDriver, updateAlert, and the trip_update, driver_location_update and
\* driver_status_update events for such an id) does not throw and leaves the
\* stores as they were: collection, selected record, lastUpdated and
\* unreadCount; an event sets lastMessage and nothing else.
C15_UpdateOfAbsentIdIsNoop ==
  /\ \A id \in LookupTripIds : ~Present(trips, id) =>
       /\ \A updates \in TripUpdates : updateTrip(Svc, id, updates) = Svc
       /\ handleMessage(Svc, TripUpdateEvent(id)) = setLastMessage(Svc, TripUpdateEvent(id))
  /\ \A id \in LookupDriverIds : ~Present(drivers, id) =>
       /\ \A updates \in DriverUpdates : updateDriver(Svc, id, updates) = Svc
       /\ handleMessage(Svc, DriverLocationEvent(id))
            = setLastMessage(Svc, DriverLocationEvent(id))
       /\ handleMessage(Svc, DriverStatusEvent(id))
            = setLastMessage(Svc, DriverStatusEvent(id))
  /\ \A id \in LookupAlertIds : ~Present(alerts, id) =>
       \A updates \in AlertUpdates : updateAlert(Svc, id, updates) = Svc

\* C15 witness: updateTrip has just run on a non-empty collection and the
\* store's lastUpdated is older than the clock, so the call changed nothing:
\* its id was absent.
C15_Witness ==
  /\ lastOp = "updateTrip"
  /\ trips # <<>>
  /\ selectedTrip # Null
  /\ tripsLastUpdated < now

\* C16: under any sequence of addAlert, markAsRead and markAllAsRead calls,
\* from the empty store or from a setAlerts load, unreadCount is the number
\* of alerts in the collection whose isRead is false.
C16_UnreadCountIsConsistent ==
  unreadCount = Cardinality({i \in 1..Len(alerts) : ~alerts[i].isRead})

\* C16 witness: markAsRead has run on an inbox that holds a read and an
\* unread alert, and the counter is 1.
C16_Witness ==
  /\ lastOp = "markAsRead"
  /\ Len(alerts) = 2
  /\ \E i, j \in 1..2 : alerts[i].isRead /\ ~alerts[j].isRead
  /\ unreadCount = 1

(* ====================================================================== *)
(* Properties of the filtered views                                        *)
(* ====================================================================== *)
RECURSIVE Occurrences(_, _)
Occurrences(r, list) ==
  IF list = <<>> THEN 0
  ELSE (IF Head(list) = r THEN 1 ELSE 0) + Occurrences(r, Tail(list))

\* the two lists hold the same records, each as many times
SameRecords(a, b) ==
  /\ Len(a) = Len(b)
  /\ \A i \in 1..Len(a) : Occurrences(a[i], a) = Occurrences(a[i], b)

\* text found in a field, whatever the case
Mentions(field, text) == includes(toLowerCase(field), toLowerCase(text))

TripSatisfies(trip, filters) ==
  /\ ("status" \in DOMAIN filters /\ filters.status # <<>>)
       => Contains(filters.status, trip.status)
  /\ ("serviceType" \in DOMAIN filters /\ filters.serviceType # <<>>)
       => Contains(filters.serviceType, trip.serviceType)
  /\ ("driverId" \in DOMAIN filters /\ filters.driverId # "")
       => (trip.driver # Null /\ trip.driver.id = filters.driverId)
  /\ ("riderId" \in DOMAIN filters /\ filters.riderId # "")
       => trip.rider.id = filters.riderId
  /\ "dateRange" \in DOMAIN filters
       => trip.requestedAt \in filters.dateRange.start..filters.dateRange.end
  /\ ("search" \in DOMAIN filters /\ filters.search # <<>>)
       => \/ Mentions(trip.id, filters.search)
          \/ Mentions(trip.rider.firstName, filters.search)
          \/ Mentions(trip.rider.lastName, filters.search)
          \/ Mentions(trip.pickup.address, filters.search)
          \/ Mentions(trip.destination.address, filters.search)

DriverSatisfies(driver, filters) ==
  /\ ("status" \in DOMAIN filters /\ filters.status # <<>>)
       => Contains(filters.status, driver.status)
  /\ ("availability" \in DOMAIN filters /\ filters.availability # <<>>)
       => Contains(filters.availability, driver.availability)
  /\ ("vehicleType" \in DOMAIN filters /\ filters.vehicleType # <<>>)
       => Contains(filters.vehicleType, driver.vehicle.type)
  /\ ("onlineOnly" \in DOMAIN filters /\ filters.onlineOnly) => driver.isOnline
  /\ ("search" \in DOMAIN filters /\ filters.search # <<>>)
       => \/ Mentions(driver.firstName, filters.search)
          \/ Mentions(driver.lastName, filters.search)
          \/ Mentions(driver.email, filters.search)
          \/ includes(driver.phone, filters.search)
          \/ ("employeeId" \in DOMAIN driver /\ Mentions(driver.employeeId, filters.search))

Satisfying(collection, filters, ofTrips) ==
  SelectSeq(collection, LAMBDA r : IF ofTrips THEN TripSatisfies(r, filters)
                                              ELSE DriverSatisfies(r, filters))

\* C17: a call of getFilteredTrips or getFilteredDrivers returns, and returns
\* exactly the records of the collection that satisfy every active criterion;
\* an undefined, empty-array or empty-string criterion imposes no constraint.
C17_FilteredViewIsConjunction ==
  lastView # Null =>
    /\ ~lastView.threw
    /\ SameRecords(lastView.records,
                   Satisfying(lastView.collection, lastView.filters,
                              lastView.ofTrips))

\* C23: a call of getFilteredTrips or getFilteredDrivers, also with no filter
\* active, gives its view and leaves the store's collection as it was: the
\* same records in the same order.
C23_FilteredViewIsPure ==
  lastView # Null =>
    /\ ~lastView.threw
    /\ lastView.ofTrips => trips = lastView.collection
    /\ ~lastView.ofTrips => drivers = lastView.collection

(* ====================================================================== *)
(* Properties of the trip and alert flows                                  *)
(* ====================================================================== *)
\* the step is the routing of an event of this type
Routes(type) ==
  /\ lastOp' = "message"
  /\ received' = received + 1
  /\ lastMessage' # Null
  /\ lastMessage'.type = type

\* C18: a trip_update event never changes the number of records of the Trip
\* store; routed right after addTrip put a pending trip t into an empty
\* store, the event {id: t, status: assigned} leaves exactly that one record,
\* with status assigned.
C18_TripUpdateMergesInPlace ==
  [][Routes("trip_update") =>
       /\ Len(trips') = Len(trips)
       /\ ( /\ lastOp = "addTrip"
            /\ Len(trips) = 1
            /\ trips[1].status = "pending"
            /\ lastMessage'.payload = [id |-> trips[1].id, status |-> "assigned"] )
          => trips' = <<[trips[1] EXCEPT !.status = "assigned"]>>]_vars

C18_Witness ==
  /\ lastOp = "message"
  /\ lastMessage # Null
  /\ lastMessage.type = "trip_update"
  /\ lastMessage.payload # Null
  /\ trips = <<[id |-> lastMessage.payload.id, status |-> "assigned", rider |-> "ann"]>>

\* what the routing of an alert_created event does to the Alert store and to
\* the toasts
AlertArrives(alert) ==
  /\ alerts' = <<alert>> \o alerts
  /\ unreadCount' = unreadCount + (IF alert.isRead THEN 0 ELSE 1)
  /\ Len(notifications') = Len(notifications) + 1
  /\ SubSeq(notifications', 1, Len(notifications)) = notifications
  /\ notifications'[Len(notifications')].type =
       (IF alert.severity = "critical" THEN "error" ELSE "warning")

\* unreadCount after markAsRead(id) is called in the state the step leads to
UnreadAfterMarkAsRead(id) ==
  markAsRead([Svc EXCEPT !.alerts = alerts', !.unreadCount = unreadCount',
                         !.selectedAlert = selectedAlert'], id).unreadCount

\* C19 as stated: an alert_created event prepends the alert, counts it when
\* unread, adds exactly one toast (error for critical, warning otherwise), and
\* a following markAsRead of its id decreases unreadCount by exactly one.
C19_MarkAsReadAlwaysDecrements ==
  [][Routes("alert_created") =>
       /\ AlertArrives(lastMessage'.payload)
       /\ UnreadAfterMarkAsRead(lastMessage'.payload.id) = unreadCount' - 1]_vars

\* C19: an alert_created event prepends the alert, counts it when unread, adds
\* exactly one toast (error for critical, warning otherwise), and a following
\* markAsRead of its id decreases unreadCount by exactly one when the alert
\* arrived unread and leaves it unchanged when the alert arrived already read.
C19_AlertArrivalAndMarkAsRead ==
  [][Routes("alert_created") =>
       /\ AlertArrives(lastMessage'.payload)
       /\ UnreadAfterMarkAsRead(lastMessage'.payload.id) =
            unreadCount' - (IF lastMessage'.payload.isRead THEN 0 ELSE 1)]_vars

C19_Witness ==
  /\ lastOp = "markAsRead"
  /\ lastMessage # Null
  /\ lastMessage.type = "alert_created"
  /\ ~lastMessage.payload.isRead
  /\ lastMessage.payload.severity = "critical"
  /\ alerts = <<[lastMessage.payload EXCEPT !.isRead = TRUE]>>
  /\ unreadCount = 0
  /\ Len(notifications) = 1
  /\ notifications[1].type = "error"

(* ====================================================================== *)
(* Properties of the selection                                             *)
(* ====================================================================== *)
\* the selected record is null or has an id that is in the collection
Anchored(selected, records) == selected = Null \/ Present(records, selected.id)

\* C20: in every reachable state of the Trip, Driver and Alert stores the
\* selected record is null or has an id currently present in the collection.
C20_SelectionIsNeverDangling ==
  /\ Anchored(selectedTrip, trips)
  /\ Anchored(selectedDriver, drivers)
  /\ Anchored(selectedAlert, alerts)

(* ====================================================================== *)
(* Properties of record identity                                           *)
(* ====================================================================== *)
\* no two records of the collection have the same id
DistinctIds(records) ==
  \A i, j \in 1..Len(records) : i # j => records[i].id # records[j].id

\* C21: in every reachable state of the Trip, Driver and Alert stores no two
\* records of one collection have the same id, also after two
\* new_trip_request or alert_created events that carry the same id.
C21_IdsAreUnique ==
  /\ DistinctIds(trips)
  /\ DistinctIds(drivers)
  /\ DistinctIds(alerts)

\* the records keep, place by place, the ids they had
SameIds(before, after) ==
  /\ Len(after) = Len(before)
  /\ \A i \in 1..Len(before) : after[i].id = before[i].id

\* C22: no updateTrip / updateDriver call and no update event changes the id
\* of a record, also when the partial carries an id field of its own.
C22_UpdateKeepsIds ==
  /\ \A id \in LookupTripIds, updates \in TripUpdates :
       SameIds(trips, updateTrip(Svc, id, updates).trips)
  /\ \A id \in LookupDriverIds, updates \in DriverUpdates :
       SameIds(drivers, updateDriver(Svc, id, updates).drivers)
  /\ \A id \in TripIds :
       SameIds(trips, storeHandleMessage(Svc, TripUpdateEvent(id)).trips)
  /\ \A id \in DriverIds :
       /\ SameIds(drivers, storeHandleMessage(Svc, DriverLocationEvent(id)).drivers)
       /\ SameIds(drivers, storeHandleMessage(Svc, DriverStatusEvent(id)).drivers)

(* ====================================================================== *)
(* Properties of the timers and of connection health                       *)
(* ====================================================================== *)
\* C26: at most one heartbeat interval and at most one pending reconnect
\* timer exist at any time; a heartbeat interval exists only while the
\* transport is connected, and no reconnect timer is pending once a handshake
\* has succeeded.
C26_TimersDoNotAccumulate ==
  /\ intervals <= 1
  /\ Len(timers) <= 1
  /\ intervals > 0 => SocketConnected(Svc)
  /\ lastOp = "on connect" => timers = <<>>

\* C27: the store's isConnected is true only when the held transport has
\* completed its handshake and is connected.
C27_ConnectedOnlyAfterHandshake ==
  isConnected => SocketConnected(Svc)

\* C28: handling an inbound event, also one whose payload makes the store
\* update throw, leaves the store's isConnected and connectionError as they
\* were, and calls every handler of the event's type and then every wildcard
\* handler.
C28_EventLeavesHealthAlone ==
  [][ lastOp' = "message"
        => /\ UNCHANGED <<isConnected, connectionError>>
           /\ pass'.calls = HandlersFor(Svc, lastMessage'.type) \o HandlersFor(Svc, "all") ]_vars

(* ====================================================================== *)
(* Properties of the unread counter under every Alert store call           *)
(* ====================================================================== *)
\* C30: under all Alert store calls, updateAlert with a partial that omits
\* isRead and removeAlert included, unreadCount equals the number of alerts
\* with isRead false.
C30_UnreadCountMatchesUnderAllCalls ==
  unreadCount = Unread(alerts)

(* ====================================================================== *)
(* Properties of the toasts                                                *)
(* ====================================================================== *)
\* every notification addNotification can make of a toast
Notices == {Merge(toast, [id |-> at, createdAt |-> at]) : toast \in Toasts, at \in 0..MaxClock}

Timed(n) == "duration" \in DOMAIN n /\ n.duration > 0

Shown(n) == \E k \in 1..Len(notifications) : notifications[k] = n

\* a timed notification that is shown is eventually not shown
TimedOnesGo == \A n \in {m \in Notices : Timed(m)} : Shown(n) ~> ~Shown(n)

\* a timer's callback takes no notification without a positive duration off
\* the list
TimersSpareUntimed ==
  [][lastOp' = "notification timer"
       => \A n \in {m \in Notices : ~Timed(m)} : Shown(n) => Shown(n)']_vars

\* removeNotification of an id that is not shown changes nothing
RemoveAbsentIsNoop ==
  [](\A id \in 0..MaxClock :
       (\A k \in 1..Len(notifications) : notifications[k].id # id)
         => removeNotification(Svc, id) = Svc)

\* C24: a notification added with a positive duration is eventually absent
\* from the list when timers fire; one added with no duration or duration 0
\* leaves the list only by an explicit removeNotification or
\* clearNotifications, never by a timer; removeNotification of an absent id
\* leaves the list unchanged.
C24_ToastLifetime == TimedOnesGo /\ TimersSpareUntimed /\ RemoveAbsentIsNoop

\* C25: after removeNotification or clearNotifications no auto-dismiss timer
\* is pending for a notification that is no longer shown, and no timer
\* callback later calls removeNotification for an id that is not shown.
C25_DismissalCancelsTimer ==
  [][ /\ lastOp' \in {"removeNotification", "clearNotifications"}
        => \A i \in 1..Len(notifTimers') :
             \E k \in 1..Len(notifications') : notifications'[k].id = notifTimers'[i].id
      /\ lastOp' = "notification timer"
        => Len(notifications') < Len(notifications) ]_vars

\* C29: the notifications in the list have ids different from one another,
\* also when two are added at the same reading of the clock.
C29_NotificationIdsAreUnique == DistinctIds(notifications)
====
